---- MODULE Spec2Model ----
(***************************************************************************)
(* A model of the leaflow proxy (leaflow.js, config.js): an authenticating *)
(* reverse proxy in front of an internal LLM service.  One request is     *)
(* followed from its arrival to its response; requests share no mutable   *)
(* state, so the server is the repetition of this life cycle.             *)
(*                                                                         *)
(* JSON values are encoded as records with a fixed set of fields, a       *)
(* missing property holding Undefined, so that a JavaScript property read *)
(* of a missing property is a read of Undefined.                          *)
(*                                                                         *)
(* Spec is the server; FairSpec and LiveSpec add the scheduling of its    *)
(* callbacks and of the upstream.  NormSpec calls the two normalizers on  *)
(* their own, over payloads of more shapes than the server's requests,    *)
(* and keeps the argument and the copy as separate objects.               *)
(***************************************************************************)
EXTENDS Integers, Sequences, FiniteSets, TLC

VARIABLES
    config,      \* the object exported by config.js, fixed after startup
    req,         \* the inbound request being served
    pc,          \* position of its handler: idle, awaiting, streaming, done, crashed
    calls,       \* the axios calls issued for the request, in order
    upstream,    \* what axios resolved or rejected with
    res,         \* the express response of the request
    upRecv,      \* number of chunks the upstream stream has received so far
    upBuf,       \* chunks received and not yet piped to the caller
    upEnded,     \* the upstream has sent the end of its stream
    upOpen,      \* the upstream connection of the stream is open
    callerOpen,  \* the caller's connection is open
    objects,     \* the payload objects allocated during a call of a normalizer
    arg,         \* the object bound to the normalizer's parameter `payload`
    copy,        \* the object bound to its local `processedPayload`
    uploads,     \* the value of its parameter `files`
    given,       \* the value of the argument when the normalizer was called
    outs,        \* the values returned by the successive calls, in order
    npc,         \* position of the call: idle, called, returned, raised
    fn           \* the normalizer called

srvVars  == <<config, req, pc, calls, upstream, res, upRecv, upBuf, upEnded, upOpen, callerOpen>>
normVars == <<objects, arg, copy, uploads, given, outs, npc, fn>>
vars     == <<srvVars, normVars>>

(***************************************************************************)
(* Bounds of the model.                                                    *)
(***************************************************************************)
MaxMsgs   == 1     \* messages of a chat request
MaxParts  == 1     \* content parts of a chat request, over all its messages
MaxFiles  == 11    \* attachments of a multipart request
MaxChunks == 2     \* chunks of an upstream stream
NormMaxMsgs  == 2  \* messages of a payload handed to a normalizer
NormMaxParts == 2  \* content parts of a message of such a payload

(***************************************************************************)
(* JavaScript values.                                                      *)
(***************************************************************************)
Undefined == "undefined"
Null      == "null"

\* JavaScript truthiness of a scalar: undefined, null, false, 0 and "" are falsy.
Truthy(v) == v \notin {Undefined, Null, "false", "0", ""}

\* obj[field], Undefined when the object has no such property.
Get(obj, field) == IF field \in DOMAIN obj THEN obj[field] ELSE Undefined

SeqsUpTo(S, n) == UNION {[1..k -> S] : k \in 0..n}

(***************************************************************************)
(* config.js                                                               *)
(***************************************************************************)
DefaultTimeoutMs == 8000

parseIntOrDefault(value, defaultValue) ==
    IF value = Undefined THEN defaultValue
    ELSE CASE value = "15000" -> 15000
           [] OTHER           -> defaultValue      \* parseInt gave NaN

\* The config object built from the environment env.
Config(env) ==
    LET baseURL == IF Truthy(env.LLM_BASE_URL) THEN env.LLM_BASE_URL
                   ELSE "http://llm.ai-infra.svc.cluster.local"
        chatEndpoint   == "/v1/chat/completions"
        modelsEndpoint == "/v1/models"
    IN [ llm |-> [ baseURL          |-> baseURL,
                   chatEndpoint     |-> chatEndpoint,
                   modelsEndpoint   |-> modelsEndpoint,
                   requestTimeoutMs |-> parseIntOrDefault(env.LLM_REQUEST_TIMEOUT_MS, DefaultTimeoutMs),
                   chatUrl          |-> baseURL \o chatEndpoint,
                   modelsUrl        |-> baseURL \o modelsEndpoint ],
         auth |-> [ innerToken       |-> IF Truthy(env.INNER_TOKEN) THEN env.INNER_TOKEN ELSE "",
                    authorizationKey |-> env.AUTHORIZATION_KEY ] ]

\* Environments the server starts in: INNER_TOKEN is set, or startup exits.
Environments ==
    { [ INNER_TOKEN            |-> "tok",
        AUTHORIZATION_KEY      |-> k,
        LLM_BASE_URL           |-> Undefined,
        LLM_REQUEST_TIMEOUT_MS |-> t ] :
      k \in {Undefined, "", "k1"}, t \in {Undefined, "15000"} }

(***************************************************************************)
(* Chat request bodies.                                                    *)
(*   part     {type, text, image_url, file_key, detail}, or null           *)
(*   message  {role, content, name}                                        *)
(*   body     {model, stream, messages, input}, or undefined               *)
(* image_url is absent, null, a string (held in url) or an object          *)
(* {url, detail}.                                                          *)
(***************************************************************************)
IuAbsent     == [kind |-> "absent", url |-> Undefined, detail |-> Undefined]
IuNull       == [kind |-> "null",   url |-> Undefined, detail |-> Undefined]
IuStr(u)     == [kind |-> "string", url |-> u,         detail |-> Undefined]
IuObj(u, d)  == [kind |-> "object", url |-> u,         detail |-> d]

NullPart == [kind |-> "null", type |-> Undefined, text |-> Undefined,
             image_url |-> IuAbsent, file_key |-> Undefined, detail |-> Undefined]
TextPart(t) == [kind |-> "object", type |-> "text", text |-> t,
                image_url |-> IuAbsent, file_key |-> Undefined, detail |-> Undefined]
ImageUrlPart(iu) == [kind |-> "object", type |-> "image_url", text |-> Undefined,
                     image_url |-> iu, file_key |-> Undefined, detail |-> Undefined]
ImageFilePart(k, d) == [kind |-> "object", type |-> "image_file", text |-> Undefined,
                        image_url |-> IuAbsent, file_key |-> k, detail |-> d]

\* The value standing for an exception thrown while a part is mapped.
Thrown == [kind |-> "thrown", type |-> Undefined, text |-> Undefined,
           image_url |-> IuAbsent, file_key |-> Undefined, detail |-> Undefined]

ContentAbsent     == [kind |-> "absent", str |-> Undefined, parts |-> <<>>]
ContentString(s)  == [kind |-> "string", str |-> s,         parts |-> <<>>]
ContentArray(ps)  == [kind |-> "array",  str |-> Undefined, parts |-> ps]

MsgsAbsent      == [kind |-> "absent", items |-> <<>>]
MsgsArray(ms)   == [kind |-> "array",  items |-> ms]

BodyUndefined == [kind |-> "undefined", model |-> Undefined, stream |-> Undefined,
                  messages |-> MsgsAbsent, input |-> Undefined]
EmptyObject   == [kind |-> "object", model |-> Undefined, stream |-> Undefined,
                  messages |-> MsgsAbsent, input |-> Undefined]

PngUrl  == "https://img.example/a.png"
BmpUrl  == "https://img.example/a.bmp"
DataUrl == "data:image/png;base64,aGk="

\* The parts requests are built from.
Parts ==
    { TextPart("hi"),
      ImageUrlPart(IuStr(PngUrl)),
      ImageUrlPart(IuObj(BmpUrl, Undefined)),
      ImageUrlPart(IuObj(DataUrl, "high")),
      ImageFilePart("images", Undefined),
      NullPart }

Contents ==
    {ContentAbsent, ContentString("Hello!")}
        \cup {ContentArray(ps) : ps \in SeqsUpTo(Parts, MaxParts)}

Messages == {[role |-> "user", content |-> c, name |-> Undefined] : c \in Contents}

RECURSIVE TotalParts(_)
TotalParts(ms) ==
    IF ms = <<>> THEN 0 ELSE Len(Head(ms).content.parts) + TotalParts(Tail(ms))

MessageLists == {ms \in SeqsUpTo(Messages, MaxMsgs) : TotalParts(ms) <= MaxParts}

StreamValues == {Undefined, "false", "true"}

ChatBodies ==
    { [kind |-> "object", model |-> "gpt-3.5-turbo", stream |-> st,
       messages |-> m, input |-> Undefined] :
      st \in StreamValues,
      m \in {MsgsAbsent} \cup {MsgsArray(ms) : ms \in MessageLists} }

EmbeddingBodies ==
    { [kind |-> "object", model |-> "text-embedding-ada-002", stream |-> Undefined,
       messages |-> MsgsAbsent, input |-> i] : i \in {"The food was delicious", Undefined} }

(***************************************************************************)
(* leaflow.js: the part callback of processImageContent                    *)
(***************************************************************************)
\* The canonical image part the normalizers build.
NewImageUrlPart(url, detail) == ImageUrlPart(IuObj(url, detail))

\* processImageUrl setting detail to 'auto' whatever detail the part carries.
processImageUrlAlwaysAuto(part) ==
    IF part.image_url.kind = "string"
    THEN NewImageUrlPart(part.image_url.url, Undefined)
    ELSE IF part.image_url.kind = "null"
    THEN Thrown
    ELSE IF part.image_url.kind = "object" /\ Truthy(part.image_url.url)
    THEN NewImageUrlPart(part.image_url.url, "auto")
    ELSE part

\* The image_url branch shared by both normalizers; part is an object of type image_url.
processImageUrl(part) ==
    IF part.image_url.kind = "string"
    THEN NewImageUrlPart(part.image_url.url, Undefined)
    ELSE IF part.image_url.kind = "null"
    THEN Thrown                       \* typeof null is 'object': null.url throws
    ELSE IF part.image_url.kind = "object" /\ Truthy(part.image_url.url)
    THEN NewImageUrlPart(part.image_url.url,
                         IF Truthy(part.image_url.detail) THEN part.image_url.detail ELSE "auto")
    ELSE part

\* The callback of message.content.map in processImageContent.
processPart(part) ==
    IF part.kind = "null" THEN Thrown      \* part.type of null throws
    ELSE IF part.type = "text" THEN part
    ELSE IF part.type = "image_url" THEN processImageUrl(part)
    ELSE part

(***************************************************************************)
(* Attachments of a multipart request and the multer middleware `upload`.  *)
(***************************************************************************)
MimeString(m) == m.type \o "/" \o m.subtype

\* Buffer.toString('base64') on the buffers attachments carry.
Base64(buffer) ==
    CASE buffer = "hi"  -> "aGk="
      [] buffer = "png" -> "cG5n"
      [] OTHER          -> ""

fileSize == 10 * 1024 * 1024       \* limits.fileSize
maxCount == 10                     \* upload.array('images', 10)

Attachments ==
    { [fieldname |-> "images", mimetype |-> [type |-> "image", subtype |-> "png"],
       size |-> 2, buffer |-> "hi"],
      [fieldname |-> "images", mimetype |-> [type |-> "image", subtype |-> "png"],
       size |-> 11 * 1024 * 1024, buffer |-> "png"],
      [fieldname |-> "images", mimetype |-> [type |-> "application", subtype |-> "pdf"],
       size |-> 2, buffer |-> "hi"],
      [fieldname |-> "photo", mimetype |-> [type |-> "image", subtype |-> "jpeg"],
       size |-> 2, buffer |-> "hi"] }

\* The attachment lists of the requests: one attachment of any kind, or up to
\* MaxFiles copies of an attachment that multer accepts.
AttachmentLists ==
    {<<f>> : f \in Attachments}
        \cup {[i \in 1..n |-> f] : n \in 0..MaxFiles,
                                   f \in {a \in Attachments : a.buffer = "hi" /\ a.size = 2
                                              /\ a.fieldname = "images"
                                              /\ a.mimetype.type = "image"}}

\* fileFilter: accept image files only.
fileFilter(file) == file.mimetype.type = "image"

\* The error multer passes to next() for the i-th file, Undefined when it accepts it.
FileError(files, i) ==
    IF files[i].fieldname # "images" \/ i > maxCount THEN "LIMIT_UNEXPECTED_FILE"
    ELSE IF ~fileFilter(files[i]) THEN "FILE_FILTER"
    ELSE IF files[i].size > fileSize THEN "LIMIT_FILE_SIZE"
    ELSE Undefined

\* upload.array('images', 10): req.files, or the error of the first refused file.
upload(r) ==
    LET files == IF r.contentType = "multipart/form-data" THEN r.files ELSE <<>>
        bad   == {i \in 1..Len(files) : FileError(files, i) # Undefined}
    IN IF bad = {}
       THEN [error |-> Undefined, files |-> files]
       ELSE [error |-> FileError(files, CHOOSE i \in bad : \A j \in bad : i <= j),
             files |-> <<>>]

(***************************************************************************)
(* leaflow.js: the part callback of processImageContentWithFiles           *)
(***************************************************************************)
\* fileMap[key]: the data URL of the last file with that fieldname.
fileMap(files, key) ==
    LET at == {i \in 1..Len(files) : files[i].fieldname = key}
    IN IF at = {} THEN Undefined
       ELSE LET file == files[CHOOSE i \in at : \A j \in at : j <= i]
            IN "data:" \o MimeString(file.mimetype) \o ";base64," \o Base64(file.buffer)

\* The callback of message.content.map in processImageContentWithFiles.
processPartWithFiles(part, files) ==
    IF part.kind = "null" THEN Thrown
    ELSE IF part.type = "text" THEN part
    ELSE IF part.type = "image_file" /\ Truthy(part.file_key)
                /\ Truthy(fileMap(files, part.file_key))
    THEN NewImageUrlPart(fileMap(files, part.file_key),
                         IF Truthy(part.detail) THEN part.detail ELSE "auto")
    ELSE IF part.type = "image_url" THEN processImageUrl(part)
    ELSE part

\* The callback of message.content.map: of processImageContentWithFiles when
\* withFiles, of processImageContent otherwise.
mapPart(part, files, withFiles) ==
    IF withFiles THEN processPartWithFiles(part, files) ELSE processPart(part)

\* The callback of payload.messages.map in both normalizers; Thrown parts stay in
\* the result.
mapMessage(message, files, withFiles) ==
    IF message.content.kind = "absent"
           \/ (message.content.kind = "string" /\ ~Truthy(message.content.str))
    THEN message                         \* !message.content
    ELSE IF message.content.kind = "string" THEN message
    ELSE IF message.content.kind = "array"
    THEN [message EXCEPT !.content =
             ContentArray([i \in 1..Len(message.content.parts) |->
                              mapPart(message.content.parts[i], files, withFiles)])]
    ELSE message

Throws(messages) ==
    \E i \in 1..Len(messages) : \E j \in 1..Len(messages[i].content.parts) :
        messages[i].content.parts[j] = Thrown

\* The result of a normalizer: the payload it returns, or an exception.
Returned(payload) == [ok |-> TRUE,  value |-> payload]
Raised            == [ok |-> FALSE, value |-> BodyUndefined]

\* The body the two normalizers share: deep copy, messages.map, return.
mapPayload(payload, files, withFiles) ==
    IF payload.kind = "undefined"
    THEN Raised                          \* JSON.parse(JSON.stringify(undefined)) throws
    ELSE IF payload.messages.kind # "array"
    THEN Returned(payload)
    ELSE LET mapped == [i \in 1..Len(payload.messages.items) |->
                            mapMessage(payload.messages.items[i], files, withFiles)]
         IN IF Throws(mapped) THEN Raised
            ELSE Returned([payload EXCEPT !.messages = MsgsArray(mapped)])

(***************************************************************************)
(* leaflow.js: processImageContent and processImageContentWithFiles        *)
(***************************************************************************)
processImageContent(payload) == mapPayload(payload, <<>>, FALSE)

processImageContentWithFiles(payload, files) == mapPayload(payload, files, TRUE)

(***************************************************************************)
(* leaflow.js: checkAuth and handleUpstreamError                           *)
(***************************************************************************)
\* checkAuth accepting any Authorization header that is present.
checkAuthAnyHeader(r) ==
    LET authorizationKey == config.auth.authorizationKey
    IN ~Truthy(authorizationKey) \/ r.authorization # Undefined

checkAuth(r) ==
    LET authorizationKey == config.auth.authorizationKey
    IN ~Truthy(authorizationKey) \/ r.authorization = "Bearer " \o authorizationKey

\* JSON documents of responses: {error} and {id, choices: []}.
ErrorDoc(message) == [error |-> message,   id |-> Undefined]
CompletionDoc(id) == [error |-> Undefined, id |-> id]

\* handleUpstreamError answering every failure with 500 and err.message.
handleUpstreamErrorRaw(err, operation) ==
    [status |-> 500, body |-> ErrorDoc(err.message)]

\* The status and body handleUpstreamError sends for err.
handleUpstreamError(err, operation) ==
    IF err.hasResponse /\ err.status >= 400 /\ err.status < 500
    THEN [status |-> err.status, body |-> ErrorDoc("Client error from upstream service.")]
    ELSE IF err.hasResponse /\ err.status >= 500
    THEN [status |-> 502, body |-> ErrorDoc("Bad Gateway. Upstream service error.")]
    ELSE IF ~err.hasResponse /\ err.hasRequest
    THEN [status |-> 502, body |-> ErrorDoc("Bad Gateway. No response from upstream service.")]
    ELSE [status |-> 500,
          body |-> ErrorDoc("Internal server error during " \o operation \o " proxy.")]

(***************************************************************************)
(* Requests, responses and axios calls.                                    *)
(***************************************************************************)
NoData == [kind |-> "absent", value |-> BodyUndefined]

NoReq == [route |-> "none", authorization |-> Undefined, contentType |-> Undefined,
          body |-> BodyUndefined, data |-> NoData, files |-> <<>>]

\* Authorization headers of the callers.
CallerHeaders == {Undefined, "Bearer k1", "bearer k1", "Bearer k1 "}

\* The `data` field of a multipart request: missing, not JSON, or a JSON payload.
DataFields ==
    { NoData, [kind |-> "invalid", value |-> BodyUndefined] }
        \cup { [kind |-> "json",
               value |-> [kind |-> "object", model |-> "gpt-3.5-turbo", stream |-> st,
                          messages |-> MsgsArray(<<[role |-> "user", name |-> Undefined,
                              content |-> ContentArray(<<ImageFilePart(k, Undefined)>>)]>>),
                          input |-> Undefined]] :
               st \in {Undefined, "true"}, k \in {"images", "missing"} }

NoBody == [kind |-> "none", doc |-> ErrorDoc(Undefined)]

NewResponse == [status |-> 200, headers |-> {}, body |-> NoBody,
                sends |-> 0, chunks |-> <<>>, ended |-> FALSE]

setHeader(headers, name, value) == {h \in headers : h[1] # name} \cup {<<name, value>>}

\* res.status(status).json(doc)
statusJson(r, status, doc) ==
    [r EXCEPT !.status = status,
              !.headers = setHeader(@, "Content-Type", "application/json"),
              !.body = [kind |-> "json", doc |-> doc],
              !.sends = @ + 1,
              !.ended = TRUE]

\* eventStreamHeaders without the Content-Type header.
eventStreamHeadersNoContentType(headers) ==
    setHeader(setHeader(headers, "Cache-Control", "no-cache"), "Connection", "keep-alive")

\* The three setHeader calls of the stream branch.
eventStreamHeaders(headers) ==
    setHeader(setHeader(setHeader(headers,
        "Content-Type", "text/event-stream"),
        "Cache-Control", "no-cache"),
        "Connection", "keep-alive")

\* relayJson dropping the upstream status: res.json(data) on every route.
relayJsonDefaultStatus(r, route, status, data) == statusJson(r, r.status, data)

\* The buffered branch of a route, given what axios resolved with: the models
\* route sends res.json(data), the others res.status(axRes.status).json(axRes.data).
relayJson(r, route, status, data) ==
    IF route = "models" THEN statusJson(r, r.status, data)
    ELSE statusJson(r, status, data)

\* pipe writes a chunk read from the upstream to the response.
pipeChunk(r, chunk) == [r EXCEPT !.chunks = Append(@, chunk)]

\* The response of express's default error handler to next(err).
defaultErrorHandler(r) ==
    [r EXCEPT !.status = 500,
              !.headers = setHeader(@, "Content-Type", "text/html"),
              !.body = [kind |-> "html", doc |-> ErrorDoc(Undefined)],
              !.sends = @ + 1,
              !.ended = TRUE]

NoUpstream == [kind |-> "none", status |-> 0, data |-> ErrorDoc(Undefined),
               hasResponse |-> FALSE, hasRequest |-> FALSE, message |-> Undefined]

\* What a handler does up to its first await.
Respond(status, doc) == [kind |-> "respond", status |-> status, body |-> doc]
Throw                == [kind |-> "throw"]
NextError            == [kind |-> "next"]
\* Call sending the proxy's own authorization key upstream.
CallWithAuthorizationKey(method, url, data, contentType, responseType) ==
    [kind |-> "call",
     call |-> [method |-> method, url |-> url, data |-> data,
               headers |-> [ContentType   |-> contentType,
                            Authorization |-> "Bearer " \o config.auth.authorizationKey],
               timeout |-> config.llm.requestTimeoutMs,
               responseType |-> responseType]]

Call(method, url, data, contentType, responseType) ==
    [kind |-> "call",
     call |-> [method |-> method, url |-> url, data |-> data,
               headers |-> [ContentType   |-> contentType,
                            Authorization |-> "Bearer " \o config.auth.innerToken],
               timeout |-> config.llm.requestTimeoutMs,
               responseType |-> responseType]]

Unauthorized == Respond(401, ErrorDoc("Unauthorized"))

(***************************************************************************)
(* leaflow.js: the routes                                                  *)
(***************************************************************************)
\* The major versions of express the program may be installed with.
ExpressMajors == {4, 5}

\* req.body after app.use(express.json()): the parsed JSON of a JSON request; for
\* another content type body-parser 1 (express 4) leaves {}, body-parser 2 undefined.
jsonBody(r, major) ==
    IF r.contentType = "application/json" THEN r.body
    ELSE IF major = 4 THEN EmptyObject ELSE BodyUndefined

modelsHandler(r) ==
    IF ~checkAuth(r) THEN Unauthorized
    ELSE Call("GET", config.llm.modelsUrl, BodyUndefined, Undefined, "json")

chatCall(payload) ==
    Call("POST", config.llm.chatUrl, payload, "application/json",
         IF Truthy(payload.stream) THEN "stream" ELSE "json")

\* app.post('/v1/chat/completions', ...) registered first.
jsonChatHandler(r, major) ==
    IF ~checkAuth(r) THEN Unauthorized
    ELSE LET payload == processImageContent(jsonBody(r, major))
         IN IF ~payload.ok THEN Throw ELSE chatCall(payload.value)

\* app.post('/v1/chat/completions', upload.array('images', 10), ...) registered second.
multipartChatHandler(r) ==
    IF upload(r).error # Undefined THEN NextError
    ELSE IF ~checkAuth(r) THEN Unauthorized
    ELSE IF r.contentType # "multipart/form-data" \/ r.data.kind # "json"
    THEN Respond(400, ErrorDoc("Invalid JSON in data field"))
    ELSE LET payload == processImageContentWithFiles(r.data.value, upload(r).files)
         IN IF ~payload.ok THEN Throw ELSE chatCall(payload.value)

\* The handlers of POST /v1/chat/completions in the order of their registration.
chatHandlers == <<"json", "multipart">>

\* Express runs the first handler registered for the method and path; a later one
\* runs only when that handler calls next(), which the first handler never does.
chatHandler(r, major) ==
    IF Head(chatHandlers) = "json" THEN jsonChatHandler(r, major)
    ELSE multipartChatHandler(r)

embeddingsHandler(r, major) ==
    IF ~checkAuth(r) THEN Unauthorized
    ELSE Call("POST", Get(config.llm, "embeddingsUrl"), jsonBody(r, major),
              "application/json", "json")

operationOf(route) ==
    CASE route = "models"     -> "/v1/models"
      [] route = "chat"       -> "/v1/chat/completions"
      [] route = "embeddings" -> "/v1/embeddings"

(***************************************************************************)
(* The state machine.                                                      *)
(***************************************************************************)
Init ==
    /\ config \in {Config(env) : env \in Environments}
    /\ req = NoReq
    /\ pc = "idle"
    /\ calls = <<>>
    /\ upstream = NoUpstream
    /\ res = NewResponse
    /\ upRecv = 0
    /\ upBuf = <<>>
    /\ upEnded = FALSE
    /\ upOpen = FALSE
    /\ callerOpen = FALSE
    /\ objects = <<>>
    /\ arg = 0
    /\ copy = 0
    /\ uploads = <<>>
    /\ given = BodyUndefined
    /\ outs = <<>>
    /\ npc = "idle"
    /\ fn = "none"

\* The request r arrives and its handler runs to its first await, or to its end.
Start(r, out, major) ==
    /\ req' = r
    /\ callerOpen' = TRUE
    /\ CASE out.kind = "respond" ->
              /\ res' = statusJson(res, out.status, out.body)
              /\ pc' = "done"
              /\ calls' = calls
         [] out.kind = "call" ->
              /\ calls' = Append(calls, out.call)
              /\ pc' = "awaiting"
              /\ res' = res
         [] out.kind = "next" ->
              /\ res' = defaultErrorHandler(res)
              /\ pc' = "done"
              /\ calls' = calls
         [] out.kind = "throw" ->
              \* The async handler's promise rejects: express 5 passes the error to
              \* next(), express 4 leaves the rejection unhandled and node exits.
              /\ IF major = 5
                 THEN res' = defaultErrorHandler(res) /\ pc' = "done"
                 ELSE res' = res /\ pc' = "crashed"
              /\ calls' = calls
    /\ UNCHANGED <<normVars, config, upstream, upRecv, upBuf, upEnded, upOpen>>

GetModels ==
    /\ pc = "idle"
    /\ \E h \in CallerHeaders :
        LET r == [NoReq EXCEPT !.route = "models", !.authorization = h]
        IN Start(r, modelsHandler(r), 4)

PostChatJson ==
    /\ pc = "idle"
    /\ \E h \in CallerHeaders, b \in ChatBodies, major \in ExpressMajors :
        LET r == [NoReq EXCEPT !.route = "chat", !.authorization = h,
                               !.contentType = "application/json", !.body = b]
        IN Start(r, chatHandler(r, major), major)

PostChatMultipart ==
    /\ pc = "idle"
    /\ \E h \in CallerHeaders, d \in DataFields, fs \in AttachmentLists, major \in ExpressMajors :
        LET r == [NoReq EXCEPT !.route = "chat", !.authorization = h,
                               !.contentType = "multipart/form-data",
                               !.data = d, !.files = fs]
        IN Start(r, chatHandler(r, major), major)

PostEmbeddings ==
    /\ pc = "idle"
    /\ \E h \in CallerHeaders, b \in EmbeddingBodies, major \in ExpressMajors :
        LET r == [NoReq EXCEPT !.route = "embeddings", !.authorization = h,
                               !.contentType = "application/json", !.body = b]
        IN Start(r, embeddingsHandler(r, major), major)

\* Statuses axios resolves with (validateStatus: 2xx) and rejects with.
SuccessStatuses == {200, 201}
ErrorStatuses   == {304, 401, 404, 500}
UpstreamDocs    == {CompletionDoc("x"), ErrorDoc("model not found")}

LastCall == calls[Len(calls)]

\* The upstream answers 2xx: the handler continues after its await.
AxiosResolve ==
    /\ pc = "awaiting"
    /\ \E status \in SuccessStatuses, data \in UpstreamDocs :
        /\ IF LastCall.responseType = "stream"
           THEN /\ upstream' = [NoUpstream EXCEPT !.kind = "resolved", !.status = status,
                                                  !.hasResponse = TRUE, !.hasRequest = TRUE]
                /\ res' = [res EXCEPT !.headers = eventStreamHeaders(@)]
                /\ pc' = "streaming"          \* axRes.data.pipe(res)
                /\ upOpen' = TRUE
           ELSE /\ upstream' = [NoUpstream EXCEPT !.kind = "resolved", !.status = status,
                                                  !.data = data,
                                                  !.hasResponse = TRUE, !.hasRequest = TRUE]
                /\ res' = relayJson(res, req.route, status, data)
                /\ pc' = "done"
                /\ upOpen' = upOpen
        /\ UNCHANGED <<normVars, config, req, calls, upRecv, upBuf, upEnded, callerOpen>>

\* The catch block of a route: handleUpstreamError(err, res, operation).
Catch(err) ==
    LET answer == handleUpstreamError(err, operationOf(req.route))
    IN /\ upstream' = err
       /\ res' = statusJson(res, answer.status, answer.body)
       /\ pc' = "done"
       /\ UNCHANGED <<normVars, config, req, calls, upRecv, upBuf, upEnded, upOpen, callerOpen>>

\* The upstream answers outside 2xx: axios rejects with err.response set.
AxiosRejectResponse ==
    /\ pc = "awaiting"
    /\ \E status \in ErrorStatuses, data \in {ErrorDoc("model not found")} :
        Catch([NoUpstream EXCEPT !.kind = "rejected", !.status = status, !.data = data,
                                 !.hasResponse = TRUE, !.hasRequest = TRUE,
                                 !.message = "Request failed"])

\* No response arrives (timeout, connection refused): err.request only.
AxiosRejectNoResponse ==
    /\ pc = "awaiting"
    /\ \E message \in {"timeout exceeded", "connect ECONNREFUSED"} :
        Catch([NoUpstream EXCEPT !.kind = "rejected", !.hasRequest = TRUE,
                                 !.message = message])

\* The request could not be set up: neither err.response nor err.request.
AxiosRejectSetup ==
    /\ pc = "awaiting"
    /\ Catch([NoUpstream EXCEPT !.kind = "rejected", !.message = "Invalid URL"])

\* The i-th chunk of the upstream's stream.
Chunk(i) == <<"data", i>>

\* A chunk of the upstream's stream arrives.
UpstreamData ==
    /\ pc = "streaming" /\ upOpen /\ ~upEnded
    /\ upRecv < MaxChunks
    /\ upRecv' = upRecv + 1
    /\ upBuf' = Append(upBuf, Chunk(upRecv + 1))
    /\ UNCHANGED <<normVars, config, req, pc, calls, upstream, res, upEnded, upOpen, callerOpen>>

\* pipe: the next buffered chunk is written to the response.
PipeWrite ==
    /\ pc = "streaming" /\ callerOpen
    /\ upBuf # <<>>
    /\ res' = pipeChunk(res, Head(upBuf))
    /\ upBuf' = Tail(upBuf)
    /\ UNCHANGED <<normVars, config, req, pc, calls, upstream, upRecv, upEnded, upOpen, callerOpen>>

\* The upstream ends its stream.
UpstreamEnd ==
    /\ pc = "streaming" /\ upOpen /\ ~upEnded
    /\ upEnded' = TRUE
    /\ upOpen' = FALSE
    /\ UNCHANGED <<normVars, config, req, pc, calls, upstream, res, upRecv, upBuf, callerOpen>>

\* pipe: the stream has been read to its end, the response is ended.
PipeEnd ==
    /\ pc = "streaming" /\ callerOpen
    /\ upEnded /\ upBuf = <<>>
    /\ res' = [res EXCEPT !.ended = TRUE]
    /\ pc' = "done"
    /\ UNCHANGED <<normVars, config, req, calls, upstream, upRecv, upBuf, upEnded, upOpen, callerOpen>>

\* The upstream's stream fails: nothing listens for its 'error' event, which
\* node raises as an uncaught exception.
UpstreamStreamError ==
    /\ pc = "streaming" /\ upOpen /\ ~upEnded
    /\ upOpen' = FALSE
    /\ pc' = "crashed"
    /\ UNCHANGED <<normVars, config, req, calls, upstream, res, upRecv, upBuf, upEnded, callerOpen>>

\* The caller's connection closes while the stream is relayed: pipe unpipes the
\* response and leaves the upstream stream as it is.
CallerClose ==
    /\ pc = "streaming" /\ callerOpen
    /\ callerOpen' = FALSE
    /\ UNCHANGED <<normVars, config, req, pc, calls, upstream, res, upRecv, upBuf, upEnded, upOpen>>

\* The request is over; the server takes the next one.
NextRequest ==
    /\ pc = "done"
    /\ req' = NoReq
    /\ pc' = "idle"
    /\ calls' = <<>>
    /\ upstream' = NoUpstream
    /\ res' = NewResponse
    /\ upRecv' = 0
    /\ upBuf' = <<>>
    /\ upEnded' = FALSE
    /\ upOpen' = FALSE
    /\ callerOpen' = FALSE
    /\ UNCHANGED <<normVars, config>>

Next ==
    \/ GetModels
    \/ PostChatJson
    \/ PostChatMultipart
    \/ PostEmbeddings
    \/ AxiosResolve
    \/ AxiosRejectResponse
    \/ AxiosRejectNoResponse
    \/ AxiosRejectSetup
    \/ UpstreamData
    \/ PipeWrite
    \/ UpstreamEnd
    \/ PipeEnd
    \/ UpstreamStreamError
    \/ CallerClose
    \/ NextRequest

Spec == Init /\ [][Next]_vars

(***************************************************************************)
(* The normalizers called on their own: processImageContent(payload) and   *)
(* processImageContentWithFiles(payload, files), each on every payload of  *)
(* NormBodies, and again on the object the call returned.                  *)
(***************************************************************************)
\* The shapes of the entries of a message's content list.
NormParts ==
    { TextPart("hi"),
      ImageUrlPart(IuStr(PngUrl)),
      ImageUrlPart(IuObj(PngUrl, Undefined)),
      ImageUrlPart(IuObj(DataUrl, "high")),
      ImageUrlPart(IuObj("", Undefined)),
      ImageUrlPart(IuObj(Undefined, "low")),
      ImageUrlPart(IuNull),
      ImageUrlPart(IuAbsent),
      [TextPart("beep") EXCEPT !.type = "input_audio"],
      [TextPart("hi") EXCEPT !.type = Undefined],
      [NullPart EXCEPT !.kind = "string", !.text = "hi"],
      NullPart,
      ImageFilePart("images", "low") }

\* Messages whose content is no list, and messages with a content list.
PlainMessages ==
    { [role |-> "system", content |-> ContentString("Hello!"), name |-> "n"],
      [role |-> "user",   content |-> ContentString(""),       name |-> Undefined],
      [role |-> "user",   content |-> ContentAbsent,           name |-> Undefined] }

ListMessages ==
    { [role |-> "user", content |-> ContentArray(ps), name |-> "u"] :
      ps \in SeqsUpTo(NormParts, NormMaxParts) }

\* Message lists of up to NormMaxMsgs messages: any message at any one position,
\* a plain message at the others.
NormMessageLists ==
    UNION { { [i \in 1..n |-> IF i = k THEN m ELSE plain] :
                k \in 1..n, m \in PlainMessages \cup ListMessages, plain \in PlainMessages } :
            n \in 0..NormMaxMsgs }

\* The payloads: undefined, without messages, and with a message list.
NormBodies ==
    { BodyUndefined, EmptyObject }
        \cup { [kind |-> "object", model |-> "gpt-4o", stream |-> top[1],
                messages |-> MsgsArray(ms), input |-> top[2]] :
               ms \in NormMessageLists,
               top \in {<<Undefined, Undefined>>, <<"true", "extra">>} }

\* The file lists multer hands to the handler: those it accepts.
NormFileLists ==
    { fs \in AttachmentLists :
        /\ Len(fs) <= 1
        /\ upload([contentType |-> "multipart/form-data", files |-> fs]).error = Undefined }

\* A copy that allocates nothing: processedPayload is payload itself.
deepCopyAliased(objs, ref) == [objects |-> objs, ref |-> ref]

\* const processedPayload = JSON.parse(JSON.stringify(payload)): a new object is
\* allocated.  The payloads are JSON values (strings, null, arrays and objects
\* without undefined properties), which the round trip reproduces; undefined is
\* refused by JSON.parse, which is mapPayload's first case.
deepCopy(objs, ref) == [objects |-> Append(objs, objs[ref]), ref |-> Len(objs) + 1]

NormInit ==
    /\ Init
    /\ config = Config([INNER_TOKEN |-> "tok", AUTHORIZATION_KEY |-> Undefined,
                        LLM_BASE_URL |-> Undefined, LLM_REQUEST_TIMEOUT_MS |-> Undefined])

\* The normalizer name is called with the object body and the file list fs.
CallNormalizer(name, body, fs) ==
    /\ objects' = <<body>>
    /\ arg' = 1
    /\ copy' = 0
    /\ uploads' = fs
    /\ given' = body
    /\ outs' = <<>>
    /\ npc' = "called"
    /\ fn' = name
    /\ UNCHANGED srvVars

CallProcessImageContent ==
    /\ npc = "idle"
    /\ \E body \in NormBodies : CallNormalizer("processImageContent", body, <<>>)

CallProcessImageContentWithFiles ==
    /\ npc = "idle"
    /\ \E body \in NormBodies, fs \in NormFileLists :
        /\ body.kind = "object"
        /\ Len(body.messages.items) <= 1
        /\ CallNormalizer("processImageContentWithFiles", body, fs)

\* The body of the normalizer runs: the copy is taken, the messages are mapped
\* and assigned to processedPayload.messages, processedPayload is returned; an
\* exception leaves the objects as they are.
RunNormalizer ==
    /\ npc = "called"
    /\ IF objects[arg].kind = "undefined"
       THEN /\ npc' = "raised"
            /\ UNCHANGED <<objects, copy, outs>>
       ELSE LET c   == deepCopy(objects, arg)
                out == mapPayload(c.objects[c.ref], uploads,
                                  fn = "processImageContentWithFiles")
            IN /\ copy' = c.ref
               /\ IF out.ok
                  THEN /\ objects' = [c.objects EXCEPT ![c.ref].messages = out.value.messages]
                       /\ outs' = Append(outs, objects'[c.ref])
                       /\ npc' = "returned"
                  ELSE /\ objects' = c.objects
                       /\ outs' = outs
                       /\ npc' = "raised"
    /\ UNCHANGED <<arg, uploads, given, fn>>
    /\ UNCHANGED srvVars

\* The normalizer is called again, on the object it returned.
Renormalize ==
    /\ npc = "returned" /\ Len(outs) = 1
    /\ arg' = copy
    /\ given' = objects[copy]
    /\ copy' = 0
    /\ npc' = "called"
    /\ UNCHANGED <<objects, uploads, outs, fn>>
    /\ UNCHANGED srvVars

\* The caller has its answer; the objects are dropped.
NormReturn ==
    /\ npc \in {"returned", "raised"}
    /\ objects' = <<>>
    /\ arg' = 0
    /\ copy' = 0
    /\ uploads' = <<>>
    /\ given' = BodyUndefined
    /\ outs' = <<>>
    /\ npc' = "idle"
    /\ fn' = "none"
    /\ UNCHANGED srvVars

NormNext ==
    \/ CallProcessImageContent
    \/ CallProcessImageContentWithFiles
    \/ RunNormalizer
    \/ Renormalize
    \/ NormReturn

NormSpec == NormInit /\ [][NormNext]_vars

(***************************************************************************)
(* Properties.                                                             *)
(***************************************************************************)
GatedRoutes == {"models", "chat", "embeddings"}

\* An authorization key is configured: AUTHORIZATION_KEY is set and not empty.
KeyConfigured == config.auth.authorizationKey \notin {Undefined, ""}

\* The request carries exactly the header `Bearer <key>`.
ExactBearer == req.authorization = "Bearer " \o config.auth.authorizationKey

\* The response is the auth gate's 401 {"error":"Unauthorized"}.
Gate401 ==
    /\ res.sends = 1
    /\ res.status = 401
    /\ res.body = [kind |-> "json", doc |-> ErrorDoc("Unauthorized")]

\* C1: on every auth-gated route, without a configured key every request
\* proceeds; with a configured key a request proceeds iff its Authorization
\* header is exactly `Bearer <key>`, and every other request is answered 401
\* {"error":"Unauthorized"} with no upstream call made for it.
C1_AuthGate ==
    (pc # "idle" /\ req.route \in GatedRoutes) =>
        IF ~KeyConfigured \/ ExactBearer
        THEN ~Gate401
        ELSE Gate401 /\ pc = "done" /\ Len(calls) = 0

C1_Witness ==
    /\ pc = "done" /\ req.route = "chat"
    /\ KeyConfigured /\ req.authorization = "Bearer k1 "
    /\ Gate401 /\ Len(calls) = 0

\* C2: every upstream call carries `Bearer <inner token>` (INNER_TOKEN is "tok"),
\* whatever the caller's header and body; the caller's own header value, which
\* never is the inner token's, is not what is sent.
C2_ServiceCredential ==
    \A i \in 1..Len(calls) :
        /\ calls[i].headers.Authorization = "Bearer tok"
        /\ calls[i].headers.Authorization # req.authorization

C2_Witness ==
    /\ Len(calls) = 1
    /\ req.route = "chat" /\ req.authorization = "Bearer k1"
    /\ calls[1].headers.Authorization = "Bearer tok"

\* C3: a failed upstream call is answered once, by first match: upstream status
\* 4xx -> the same status, 5xx -> 502, no response -> 502, anything else -> 500,
\* each with its fixed message; the body never is the upstream body nor carries
\* the error message.
C3_ErrorTranslation ==
    (pc = "done" /\ upstream.kind = "rejected") =>
        /\ res.sends = 1
        /\ res.body.kind = "json"
        /\ res.body.doc.id = Undefined
        /\ res.body.doc # upstream.data
        /\ res.body.doc.error \notin {upstream.data.error, upstream.message}
        /\ CASE upstream.hasResponse /\ upstream.status \in 400..499 ->
                  /\ res.status = upstream.status
                  /\ res.body.doc.error = "Client error from upstream service."
             [] upstream.hasResponse /\ upstream.status \in 500..599 ->
                  /\ res.status = 502
                  /\ res.body.doc.error = "Bad Gateway. Upstream service error."
             [] ~upstream.hasResponse /\ upstream.hasRequest ->
                  /\ res.status = 502
                  /\ res.body.doc.error = "Bad Gateway. No response from upstream service."
             [] OTHER ->
                  /\ res.status = 500
                  /\ res.body.doc.error \in
                         { "Internal server error during /v1/models proxy.",
                           "Internal server error during /v1/chat/completions proxy.",
                           "Internal server error during /v1/embeddings proxy." }
                  /\ (req.route = "models") =
                         (res.body.doc.error = "Internal server error during /v1/models proxy.")
                  /\ (req.route = "chat") =
                         (res.body.doc.error = "Internal server error during /v1/chat/completions proxy.")

C3_Witness ==
    /\ pc = "done" /\ upstream.kind = "rejected"
    /\ upstream.status = 404 /\ upstream.data = ErrorDoc("model not found")
    /\ res.status = 404
    /\ res.body.doc = ErrorDoc("Client error from upstream service.")

\* The stream field of the request body as parsed by express.json().
StreamRequested == req.body.stream \notin {Undefined, "false"}

\* C4: an authorized chat-completion request with a falsy stream field, answered
\* successfully by the upstream with status s and body b, is answered s and b.
C4_BufferedRelay ==
    (pc = "done" /\ req.route = "chat" /\ ~StreamRequested /\ upstream.kind = "resolved") =>
        /\ res.sends = 1
        /\ res.status = upstream.status
        /\ res.body = [kind |-> "json", doc |-> upstream.data]

C4_Witness ==
    /\ pc = "done" /\ req.route = "chat" /\ req.body.stream = "false"
    /\ upstream.kind = "resolved" /\ upstream.status = 201
    /\ res.status = 201 /\ res.body.doc = CompletionDoc("x")

EventStreamHeaders ==
    { <<"Content-Type", "text/event-stream">>,
      <<"Cache-Control", "no-cache">>,
      <<"Connection", "keep-alive">> }

\* The chunks received from the upstream so far, in the order of their arrival.
Received == [i \in 1..upRecv |-> Chunk(i)]

IsPrefix(a, b) == Len(a) <= Len(b) /\ \A i \in 1..Len(a) : a[i] = b[i]

\* C5: on a streaming chat-completion request whose upstream call succeeded, the
\* event-stream headers are set before the first upstream byte is written to the
\* caller, and what has been written is always a prefix of what was received.
C5_StreamRelay ==
    (req.route = "chat" /\ StreamRequested /\ upstream.kind = "resolved") =>
        /\ res.chunks # <<>> => EventStreamHeaders \subseteq res.headers
        /\ pc = "streaming" => EventStreamHeaders \subseteq res.headers
        /\ IsPrefix(res.chunks, Received)

C5_Witness ==
    /\ req.route = "chat" /\ StreamRequested /\ upstream.kind = "resolved"
    /\ Len(res.chunks) = 1 /\ upRecv = 2
    /\ res.chunks[1] = Chunk(1)

\* The request is authorized as the auth gate is specified.
Authorized == ~KeyConfigured \/ ExactBearer

PartsOf(payload) ==
    UNION { {payload.messages.items[i].content.parts[j] :
                j \in 1..Len(payload.messages.items[i].content.parts)} :
            i \in 1..Len(payload.messages.items) }

\* Image URLs that are data URLs, and those that parse and end in jpg, jpeg, png,
\* gif or webp.
DataUrls       == {DataUrl}
ImageFileUrls  == {PngUrl}

InvalidImageUrl(part) ==
    /\ part.type = "image_url"
    /\ part.image_url.kind \in {"string", "object"}
    /\ part.image_url.url \notin DataUrls \cup ImageFileUrls \cup {Undefined}

\* C6: a JSON chat-completion request with an image_url that is no data URL and
\* does not end in a recognized image extension is answered 400
\* {error: "Invalid image URL format"}, and no upstream call is made for it.
C6_InvalidImageUrlRejected ==
    (/\ req.route = "chat" /\ req.contentType = "application/json" /\ Authorized
     /\ \E part \in PartsOf(req.body) : InvalidImageUrl(part)
     /\ \A part \in PartsOf(req.body) : part.kind # "null")
        => /\ Len(calls) = 0
           /\ pc = "done"
           /\ res.status = 400
           /\ res.body = [kind |-> "json", doc |-> ErrorDoc("Invalid image URL format")]

\* The attachments of the request that multer accepts as they are.
Accepted(files) ==
    /\ Len(files) <= maxCount
    /\ \A i \in 1..Len(files) :
          /\ files[i].fieldname = "images"
          /\ files[i].mimetype.type = "image"
          /\ files[i].size <= fileSize

\* C7: a multipart chat-completion request with a JSON payload field and image
\* attachments is normalized by the multipart path: the body sent upstream is the
\* payload field with each image_file part whose key matches an attachment
\* replaced by an image_url part holding the attachment's data URL.
C7_MultipartPath ==
    (/\ pc \in {"awaiting", "streaming", "done", "crashed"}
     /\ req.route = "chat" /\ req.contentType = "multipart/form-data" /\ Authorized
     /\ req.data.kind = "json" /\ Len(req.files) > 0 /\ Accepted(req.files)
     /\ \A part \in PartsOf(req.data.value) :
            part.type = "image_file" /\ part.file_key = "images")
        => /\ Len(calls) = 1
           /\ calls[1].data.model = req.data.value.model
           /\ calls[1].data.messages.kind = "array"
           /\ Len(calls[1].data.messages.items) = Len(req.data.value.messages.items)
           /\ \A part \in PartsOf(calls[1].data) :
                  /\ part.type = "image_url"
                  /\ part.image_url.kind = "object"
                  /\ part.image_url.url = "data:image/png;base64,aGk="

\* C8: no chat-completion body handed to the upstream call holds an image_file
\* part: on either path each such part was replaced by an image_url part or the
\* request was answered with an error and no upstream call.
C8_NoImageFileUpstream ==
    (req.route = "chat") =>
        \A i \in 1..Len(calls) : \A part \in PartsOf(calls[i].data) :
            part.type # "image_file"

\* C9: a multipart chat-completion request with an attachment over the size limit
\* or with more attachments than the maximum is answered 413 with a JSON error
\* body, and no upstream call is made for it.
C9_AttachmentLimits ==
    (/\ pc \in {"awaiting", "streaming", "done", "crashed"}
     /\ req.route = "chat" /\ req.contentType = "multipart/form-data" /\ Authorized
     /\ \/ Len(req.files) > maxCount
        \/ \E i \in 1..Len(req.files) : req.files[i].size > fileSize)
        => /\ Len(calls) = 0
           /\ pc = "done"
           /\ res.status = 413
           /\ res.body.kind = "json"
           /\ res.body.doc.error # Undefined

\* C10: an authorized embeddings request makes exactly one upstream call, to the
\* embeddings endpoint of the configured base URL, with the request body, the
\* service credential and the configured timeout; an upstream success with
\* status s and body b is answered s and b.
C10_EmbeddingsRelay ==
    (pc # "idle" /\ req.route = "embeddings" /\ Authorized) =>
        /\ Len(calls) = 1
        /\ calls[1].url = config.llm.baseURL \o "/v1/embeddings"
        /\ calls[1].data = req.body
        /\ calls[1].headers.Authorization = "Bearer tok"
        /\ calls[1].timeout = config.llm.requestTimeoutMs
        /\ (pc = "done" /\ upstream.kind = "resolved") =>
               /\ res.status = upstream.status
               /\ res.body = [kind |-> "json", doc |-> upstream.data]

(***************************************************************************)
(* Scheduling.  Node's event loop runs every callback that is ready: a     *)
(* chunk buffered by pipe is written and a stream read to its end ends    *)
(* the response as long as the caller's connection is open.  Nothing is   *)
(* assumed of the upstream.                                                *)
(***************************************************************************)
FairSpec == Spec /\ WF_vars(PipeWrite) /\ WF_vars(PipeEnd)

\* Once the caller's connection has closed, no chunk is written to the response.
NoRelayAfterClose == [][~callerOpen => res'.chunks = res.chunks]_vars

\* C11: on a streaming chat-completion request, once the caller's connection has
\* closed before the upstream ended its stream, the upstream connection is
\* eventually closed, without waiting for the upstream to end on its own.
C11_UpstreamClosedOnCallerClose ==
    (req.route = "chat" /\ pc = "streaming" /\ ~callerOpen /\ ~upEnded) ~> ~upOpen

\* The content parts of the argument and of the returned payload at position
\* j of message i.
GivenPart(i, j)    == given.messages.items[i].content.parts[j]
ReturnedPart(i, j) == objects[copy].messages.items[i].content.parts[j]

\* The positions of the content parts of the argument.
PartPositions ==
    UNION { {<<i, j>> : j \in 1..Len(given.messages.items[i].content.parts)} :
            i \in 1..Len(given.messages.items) }

\* C12: processImageContent maps an image_url part given as a string u and one
\* given as the object {url: u} without detail to the same part,
\* {type: "image_url", image_url: {url: u, detail: "auto"}}.
C12_SameCanonicalPart ==
    (npc = "returned" /\ fn = "processImageContent") =>
        \A pos \in PartPositions :
            LET part == GivenPart(pos[1], pos[2])
            IN (/\ part.kind = "object" /\ part.type = "image_url"
                /\ part.image_url.kind \in {"string", "object"}
                /\ part.image_url.url = PngUrl
                /\ part.image_url.detail = Undefined)
                   => ReturnedPart(pos[1], pos[2]) = NewImageUrlPart(PngUrl, "auto")

\* A content entry that is neither a text part nor an image_url part given as a
\* string or as an object holding a url.
OtherPart(part) ==
    ~(/\ part.kind = "object"
      /\ \/ part.type = "text"
         \/ /\ part.type = "image_url"
            /\ \/ part.image_url.kind = "string"
               \/ (part.image_url.kind = "object" /\ Truthy(part.image_url.url)))

\* The positions of the content parts of the request body.
BodyPositions ==
    UNION { {<<i, j>> : j \in 1..Len(req.body.messages.items[i].content.parts)} :
            i \in 1..Len(req.body.messages.items) }

\* C13: on a JSON chat-completion request, the request goes upstream and every
\* content entry that is neither a text part nor an image_url part in string or
\* {url} form is found unchanged at the same position of the body sent: no such
\* entry makes the normalizer reject or abort the request.
C13_OtherPartsForwarded ==
    (/\ pc # "idle" /\ req.route = "chat" /\ req.contentType = "application/json"
     /\ Authorized)
        => /\ Len(calls) = 1
           /\ pc # "crashed"
           /\ \A pos \in BodyPositions :
                  LET part == req.body.messages.items[pos[1]].content.parts[pos[2]]
                  IN OtherPart(part) =>
                         calls[1].data.messages.items[pos[1]].content.parts[pos[2]] = part

\* C14: the payload processImageContent returns, which the handler sends
\* upstream, equals its argument in every top-level field other than messages,
\* has as many messages in the same order, each equal to the argument's in every
\* field other than content; and the object given as argument is left as it was,
\* whether the call returns or raises.
C14_Frame ==
    (fn = "processImageContent" /\ npc \in {"returned", "raised"}) =>
        /\ objects[arg] = given
        /\ npc = "returned" =>
               LET sent == objects[copy]
               IN /\ sent.kind = given.kind
                  /\ sent.model = given.model
                  /\ sent.stream = given.stream
                  /\ sent.input = given.input
                  /\ sent.messages.kind = given.messages.kind
                  /\ Len(sent.messages.items) = Len(given.messages.items)
                  /\ \A i \in 1..Len(given.messages.items) :
                         /\ sent.messages.items[i].role = given.messages.items[i].role
                         /\ sent.messages.items[i].name = given.messages.items[i].name

C14_Witness ==
    /\ fn = "processImageContent" /\ npc = "returned" /\ Len(outs) = 1
    /\ given.input = "extra" /\ given.stream = "true"
    /\ Len(given.messages.items) = 2
    /\ given.messages.items[1].name = "n"
    /\ given.messages.items[2].content = ContentArray(<<ImageUrlPart(IuStr(PngUrl))>>)
    /\ objects[copy] # given
    /\ objects[copy].messages.items[1] = given.messages.items[1]
    /\ objects[arg] = given

\* The file keys of the image_file parts of the argument.
FileKeys ==
    { GivenPart(pos[1], pos[2]).file_key :
        pos \in {q \in PartPositions : GivenPart(q[1], q[2]).type = "image_file"} }

\* C15: processImageContentWithFiles appends every file whose field name is the
\* key of no image_file part to the last message, as an image_url part holding
\* the file's data URL, that message's content being a part list afterwards.
C15_UnmatchedAppended ==
    (/\ fn = "processImageContentWithFiles" /\ npc = "returned"
     /\ Len(given.messages.items) > 0)
        => \A k \in 1..Len(uploads) :
               uploads[k].fieldname \notin FileKeys =>
                   LET items == objects[copy].messages.items
                       last  == items[Len(items)]
                   IN /\ last.content.kind = "array"
                      /\ \E j \in 1..Len(last.content.parts) :
                             /\ last.content.parts[j].type = "image_url"
                             /\ last.content.parts[j].image_url.kind = "object"
                             /\ last.content.parts[j].image_url.url
                                    = fileMap(uploads, uploads[k].fieldname)

\* The values of detail: enum {auto, low, high}.
Details == {"auto", "low", "high"}

\* The argument is canonical: each of its image parts is an image_url part whose
\* image_url is an object with a url and an explicit detail.
CanonicalRequest ==
    \A pos \in PartPositions :
        LET part == GivenPart(pos[1], pos[2])
        IN /\ part.type # "image_file"
           /\ part.type = "image_url" =>
                  /\ part.image_url.kind = "object"
                  /\ part.image_url.url # Undefined
                  /\ part.image_url.detail \in Details

\* C16: processImageContent returns a canonical argument r as it is, and, called
\* again on what it returned, returns the same once more:
\* normalize(normalize(r)) = normalize(r) = r.
C16_Idempotent ==
    (fn = "processImageContent" /\ npc = "returned" /\ CanonicalRequest) =>
        /\ objects[copy] = given
        /\ outs[Len(outs)] = given
        /\ Len(outs) = 2 => outs[2] = outs[1]

C16_Witness ==
    /\ fn = "processImageContent" /\ npc = "returned" /\ Len(outs) = 2
    /\ CanonicalRequest
    /\ Len(given.messages.items) = 1
    /\ given.messages.items[1].content
           = ContentArray(<<ImageUrlPart(IuObj(DataUrl, "high")), TextPart("hi")>>)
    /\ outs[1] = given /\ outs[2] = given

(***************************************************************************)
(* Scheduling with an upstream that does its part: besides the pipe's own  *)
(* steps, the axios call is settled (the upstream answers, or the timeout  *)
(* of config.llm.requestTimeoutMs or a connection failure rejects it), and *)
(* an upstream stream ends or fails.                                       *)
(***************************************************************************)
LiveSpec ==
    /\ Spec
    /\ WF_vars(PipeWrite)
    /\ WF_vars(PipeEnd)
    /\ WF_vars(AxiosResolve \/ AxiosRejectResponse \/ AxiosRejectNoResponse \/ AxiosRejectSetup)
    /\ WF_vars(UpstreamEnd \/ UpstreamStreamError)

\* Nothing is sent through res.json once chunks were piped, and res.json is
\* called at most once for a request.
NoSecondResponse == res.sends <= 1 /\ (res.chunks # <<>> => res.sends = 0)

\* C17: every authorized chat-completion request, JSON or multipart, eventually
\* has one completed response, unless the caller closed its connection; so has a
\* request on which the normalizer raises, and a streaming request whose
\* upstream stream fails after the event-stream headers were set.
C17_OneCompletedResponse ==
    (req.route = "chat" /\ Authorized /\ pc # "idle")
        ~> ((res.ended /\ NoSecondResponse) \/ ~callerOpen)

====
